---- MODULE Spec2Model ----
(***************************************************************************)
(* Model of weko_itemtypes_ui/views.py: the route handlers of the item     *)
(* type blueprint, the permission decorator in front of some of them, and  *)
(* the transaction (commit / rollback) each write handler runs against the *)
(* relational store.                                                       *)
(*                                                                         *)
(* The records API (ItemTypes, ItemTypeProps, Mapping) and db.session are  *)
(* external collaborators.  They are modelled as an environment: a table   *)
(* per entity, writes that go to the request's session and become visible  *)
(* in the store on commit, and for every call that can raise a choice of   *)
(* whether it raises and with what class of exception (the "plan" of a    *)
(* request).                                                               *)
(***************************************************************************)
EXTENDS Integers, Sequences, FiniteSets

VARIABLES
    db,      \* the committed store: [items, maps, props], each a table id -> row
    pre,     \* the committed store as it was when the last request arrived
    req,     \* the last request
    resp,    \* the response to the last request
    log,     \* the calls the last request made, in order
    lists,   \* the list the handler fetched (get_latest / get_all / get_records)
    n,       \* number of requests served
    gate     \* one application of need_permissions(hidden)(f), for GateSpec

vars == <<db, pre, req, resp, log, lists, n, gate>>

------------------------------------------------------------------------------
(* Bounds *)

MaxId == 2          \* ids a request names are 0 (none) and 1..MaxId
MaxVal == 1         \* payloads (names, schemas, forms, mappings) are 1..MaxVal
MaxRequests == 3    \* requests served in one behaviour

Vals == 1..MaxVal

------------------------------------------------------------------------------
(* Small helpers *)

Put(t, k, v) == [x \in (DOMAIN t) \cup {k} |-> IF x = k THEN v ELSE t[x]]

EmptyTable == [x \in {} |-> 0]

Perms(S) == {s \in [1..Cardinality(S) -> S] : \A i, j \in DOMAIN s : s[i] = s[j] => i = j}

\* a call that returned (ok) or, with Raised, one that raised an exception of
\* class exc: "Exception" (it or a subclass) or "BaseException" (one that does
\* not derive from Exception: KeyboardInterrupt, SystemExit, GeneratorExit)
Ev(call, ok) == [call |-> call, ok |-> ok, exc |-> ""]

Raised(call, exc) == [call |-> call, ok |-> FALSE, exc |-> exc]

Called(l, call) == \E i \in DOMAIN l : l[i].call = call

CalledOk(l, call) == \E i \in DOMAIN l : l[i].call = call /\ l[i].ok

Count(l, call) == Cardinality({i \in DOMAIN l : l[i].call = call})

NoList == [none |-> TRUE, seq |-> <<>>]

AList(s) == [none |-> FALSE, seq |-> s]

Res(r, l, d, ls) == [resp |-> r, log |-> l, db |-> d, lists |-> ls]

------------------------------------------------------------------------------
(* Responses *)

Abort(code) == [kind |-> "abort", status |-> code, msg |-> ""]

Unhandled(exc) == [kind |-> "exception", status |-> 500, msg |-> exc]

JsonMsg(m) == [kind |-> "json", status |-> 200, msg |-> m]

JsonDoc(doc) == [kind |-> "json", status |-> 200, msg |-> "", doc |-> doc]

Html(template, ls, id) ==
    [kind |-> "html", status |-> 200, msg |-> "", template |-> template,
     lists |-> ls, id |-> id]

MappingPage(ls, mapping, id) ==
    [kind |-> "html", status |-> 200, msg |-> "",
     template |-> "WEKO_ITEMTYPES_UI_MAPPING_TEMPLATE",
     lists |-> ls, mapping |-> mapping, id |-> id]

Redirect(endpoint, id) ==
    [kind |-> "redirect", status |-> 302, msg |-> "", endpoint |-> endpoint, id |-> id]

EmptyShape ==
    [table_row |-> <<>>, table_row_map |-> EmptyTable, meta_list |-> EmptyTable,
     schemaeditor |-> [schema |-> EmptyTable]]

------------------------------------------------------------------------------
(* The permission gate *)

\* check_permission: 0 when the request may proceed, else the status abort() raises.
\* permission is "None" (no factory), "grant" or "deny" (what permission().can() says).
\* (mutant) a denial answers 403 without looking at the caller
check_permission_403(permission, hidden, authenticated) ==
    IF permission # "None" /\ permission # "grant"
    THEN IF hidden THEN 404 ELSE 403
    ELSE 0

Can(permission) == permission = "grant"

check_permission(permission, hidden, authenticated) ==
    IF permission # "None" /\ ~Can(permission)
    THEN IF hidden THEN 404
         ELSE IF authenticated THEN 403 ELSE 401
    ELSE 0

\* hidden, when a route is decorated with need_permissions(): the default, line 66
DefaultHiddenTrue == TRUE

DefaultHidden == FALSE

\* need_permissions(hidden)(f): decorate runs the check, then f.  h is what f
\* returns when it is invoked; the evaluation of permission().can() is logged.
need_permissions(hidden, r, d, h) ==
    LET c == check_permission(r.perm, hidden, r.auth)
        g == IF r.perm = "None" THEN <<>> ELSE <<Ev("permission.can", c = 0)>>
    IN  IF c # 0 THEN Res(Abort(c), g, d, NoList)
        ELSE [h EXCEPT !.log = g \o h.log]

------------------------------------------------------------------------------
(* The records API and the session, as the handlers use them *)

EmptyStore == [items |-> EmptyTable, maps |-> EmptyTable, props |-> EmptyTable]

\* The ids the allocator of a table may give a new row: the lowest unused id,
\* or the one after the highest
NextId(t) == IF DOMAIN t = {} THEN 1 ELSE (CHOOSE i \in DOMAIN t : \A j \in DOMAIN t : j <= i) + 1

LowestFree(t) == CHOOSE i \in 1..NextId(t) : i \notin DOMAIN t /\ \A j \in 1..(i - 1) : j \in DOMAIN t

FreshIds(t) == {LowestFree(t), NextId(t)}

\* ItemTypes.get_by_id: the item type, or None
ItemTypesGetById(d, id) ==
    IF id \in DOMAIN d.items
    THEN [type |-> "ItemType", id |-> id, row |-> d.items[id]]
    ELSE [type |-> "None", id |-> 0]

\* ItemTypes.update: creates a row with the id new when id_ is 0, else writes
\* the row of id_ (whether or not it exists: the environment may also refuse).
\* out is "ok", or the class of the exception the call raises.  The write goes
\* to the session s.
ItemTypesUpdate(s, id, name, schema, form, render, new, out) ==
    IF out # "ok" THEN [exc |-> out, sess |-> s, id |-> 0]
    ELSE LET i == IF id = 0 THEN new ELSE id
             row == [name |-> name, schema |-> schema, form |-> form, render |-> render]
         IN  [exc |-> "", sess |-> [s EXCEPT !.items = Put(s.items, i, row)], id |-> i]

\* Mapping.create: writes the mapping of an item type id; raises without an id
MappingCreate(s, item_type_id, mapping, out) ==
    IF out # "ok" THEN [exc |-> out, sess |-> s]
    ELSE IF item_type_id = 0 THEN [exc |-> "Exception", sess |-> s]
    ELSE [exc |-> "", sess |-> [s EXCEPT !.maps = Put(s.maps, item_type_id, mapping)]]

\* Mapping.get_record: the mapping, or None (0)
MappingGetRecord(d, id) == IF id \in DOMAIN d.maps THEN d.maps[id] ELSE 0

\* ItemTypeProps.create: creates a row with the id new when property_id is 0,
\* else writes its row
ItemTypePropsCreate(s, property_id, name, schema, form_single, form_array, new, out) ==
    IF out # "ok" THEN [exc |-> out, sess |-> s]
    ELSE LET i == IF property_id = 0 THEN new ELSE property_id
             row == [name |-> name, schema |-> schema, form |-> form_single,
                     forms |-> form_array]
         IN  [exc |-> "", sess |-> [s EXCEPT !.props = Put(s.props, i, row)]]

\* ItemTypeProps.get_record: the property, or None
ItemTypePropsGetRecord(d, id) ==
    IF id \in DOMAIN d.props
    THEN [type |-> "ItemTypeProperty", id |-> id, row |-> d.props[id]]
    ELSE [type |-> "None", id |-> 0]

\* db.session.commit: the session's writes become the store, unless it raises
Commit(st, out) ==
    IF out = "ok"
    THEN [st EXCEPT !.db = st.sess, !.log = Append(st.log, Ev("db.session.commit", TRUE))]
    ELSE [st EXCEPT !.log = Append(st.log, Raised("db.session.commit", out))]

\* db.session.rollback: the session's writes are dropped, unless it raises
Rollback(st, ok) ==
    IF ok
    THEN [st EXCEPT !.sess = st.db, !.log = Append(st.log, Ev("db.session.rollback", TRUE))]
    ELSE [st EXCEPT !.log = Append(st.log, Raised("db.session.rollback", "Exception"))]

\* json.loads / json.dumps on the texts the model uses: <<"json", v>> is the
\* text of the value v, <<"junk", 0>> a text that does not parse, <<"none", 0>> None
JsonLoads(t) == IF t[1] = "json" THEN [ok |-> TRUE, val |-> t[2]] ELSE [ok |-> FALSE, val |-> 0]

JsonDumps(v) == <<"json", v>>

------------------------------------------------------------------------------
(* Requests *)

NoBody == [kind |-> "none", trm |-> FALSE, v |-> 0, item_type_id |-> 0,
           mapstr |-> <<"none", 0>>]

\* A JSON body.  kind: "malformed" (does not parse; PostCases adds it to the
\* bodies below), "null" (parses to None) or "object".  register reads table_row_map (present when trm) and in it name,
\* schema, form, mapping; custom_property_new reads name, schema, form1, form2;
\* mapping_register reads item_type_id (0: absent) and mapping, a JSON text.
Body(kind, trm, v, item_type_id, mapstr) ==
    [kind |-> kind, trm |-> trm, v |-> v, item_type_id |-> item_type_id, mapstr |-> mapstr]

TableRowMap(b) == [name |-> b.v, schema |-> b.v, form |-> b.v, mapping |-> b.v]

Perm == {"grant", "deny"}

\* the values of the Content-Type header ("": the server passes an empty value)
ContentTypes == {"application/json", "application/json; charset=utf-8", "text/plain", ""}

GetReq(route, id, perm, auth) ==
    [route |-> route, id |-> id, perm |-> perm, auth |-> auth,
     hasCtype |-> FALSE, ctype |-> "", body |-> NoBody]

PostReq(route, id, perm, auth, hasCtype, ctype, body) ==
    [route |-> route, id |-> id, perm |-> perm, auth |-> auth,
     hasCtype |-> hasCtype, ctype |-> ctype, body |-> body]

\* The headers a POST can carry: <<TRUE, value>>, or <<FALSE, "">> when the
\* request has no Content-Type and the server leaves it out of the environment
PostHeaders ==
    {<<TRUE, c>> : c \in ContentTypes} \cup {<<FALSE, "">>}

Passes(h) == h[1] /\ h[2] = "application/json"

RegisterBodies ==
    {Body("null", FALSE, 0, 0, <<"none", 0>>), Body("object", FALSE, 0, 0, <<"none", 0>>)}
    \cup {Body("object", TRUE, v, 0, <<"none", 0>>) : v \in Vals}

PropertyBodies ==
    {Body("null", FALSE, 0, 0, <<"none", 0>>)}
    \cup {Body("object", FALSE, v, 0, <<"none", 0>>) : v \in 0..MaxVal}

MappingBodies ==
    {Body("null", FALSE, 0, 0, <<"none", 0>>)}
    \cup {Body("object", FALSE, 0, i, t) :
            i \in 0..MaxId, t \in {<<"json", v>> : v \in Vals} \cup {<<"junk", 0>>, <<"none", 0>>}}

Start(d) == [db |-> d, sess |-> d, log |-> <<>>]

Did(st, call, exc, s) ==
    [st EXCEPT !.sess = s,
               !.log = Append(@, IF exc = "" THEN Ev(call, TRUE) ELSE Raised(call, exc))]

\* how a try block ends: raised is "none", or the class of the exception
Try(st, raised) == [st |-> st, raised |-> raised]

AfterCommit(st, out) == Try(Commit(st, out), IF out = "ok" THEN "none" ELSE out)

------------------------------------------------------------------------------
(* Item type handlers *)

\* index, lines 92-102; order: the item types as get_latest lists them
index(r, d, order) ==
    Res(Html("WEKO_ITEMTYPES_UI_REGISTER_TEMPLATE", AList(order), r.id),
        <<Ev("ItemTypes.get_latest", TRUE)>>, d, AList(order))

\* render, lines 107-120
render(r, d) ==
    LET got == IF r.id > 0 THEN ItemTypesGetById(d, r.id) ELSE [type |-> "None", id |-> 0]
        l == IF r.id > 0 THEN <<Ev("ItemTypes.get_by_id", TRUE)>> ELSE <<>>
        result == IF got.type = "None" THEN [type |-> "dict", value |-> EmptyShape] ELSE got
    IN  \* result.render: a dict has no attribute render
        IF result.type = "dict" THEN Res(Unhandled("AttributeError"), l, d, NoList)
        ELSE Res(JsonDoc([type |-> "render", value |-> result.row.render]), l, d, NoList)

\* (mutant) the item type is committed before the mapping is created
RegisterTryEarlyCommit(r, st, p) ==
    IF r.body.kind = "null" \/ ~r.body.trm THEN Try(st, "Exception")
    ELSE
    LET trm == TableRowMap(r.body)
        u == ItemTypesUpdate(st.sess, r.id, trm.name, trm.schema, trm.form, r.body.v,
                             p.newItem, p.update)
        st0 == Did(st, "ItemTypes.update", u.exc, u.sess)
        st1 == Commit(st0, "ok")
        item_type_id == IF r.id = 0 THEN u.id ELSE r.id
        m == MappingCreate(st1.sess, item_type_id, trm.mapping, p.create)
        st2 == Did(st1, "Mapping.create", m.exc, m.sess)
    IN  IF u.exc # "" THEN Try(st0, u.exc)
        ELSE IF m.exc # "" THEN Try(st2, m.exc)
        ELSE AfterCommit(st2, p.commit)

\* register, the try block, lines 132-143.  data.get on a body that is None, or
\* .get on a missing table_row_map, raises AttributeError
RegisterTry(r, st, p) ==
    IF r.body.kind = "null" \/ ~r.body.trm THEN Try(st, "Exception")
    ELSE
    LET trm == TableRowMap(r.body)
        u == ItemTypesUpdate(st.sess, r.id, trm.name, trm.schema, trm.form, r.body.v,
                             p.newItem, p.update)
        st1 == Did(st, "ItemTypes.update", u.exc, u.sess)
        item_type_id == IF r.id = 0 THEN u.id ELSE r.id
        m == MappingCreate(st1.sess, item_type_id, trm.mapping, p.create)
        st2 == Did(st1, "Mapping.create", m.exc, m.sess)
    IN  IF u.exc # "" THEN Try(st1, u.exc)
        ELSE IF m.exc # "" THEN Try(st2, m.exc)
        ELSE AfterCommit(st2, p.commit)

\* the except block of the write handlers, lines 144-146, 209-212, 256-258:
\* roll back and answer Fail; an exception of the rollback leaves the handler
Except(st, ok) ==
    LET s == Rollback(st, ok)
    IN  IF ok THEN Res(JsonMsg("Fail"), s.log, s.db, NoList)
        ELSE Res(Unhandled("RuntimeError"), s.log, s.db, NoList)

\* which exceptions the except clause catches: the bare except: of register
\* (line 144) and mapping_register (line 256) every one, the except Exception
\* of custom_property_new (line 209) only those deriving from Exception
Catches(route, raised) == route # "custom_property_new" \/ raised = "Exception"

\* the end of a write handler after its try block t: the except block when it
\* raised and the clause catches it, the exception leaving the handler when it
\* does not, else Success
AfterTry(r, t, p) ==
    IF t.raised = "none" THEN Res(JsonMsg("Success"), t.st.log, t.st.db, NoList)
    ELSE IF Catches(r.route, t.raised) THEN Except(t.st, p.rollback)
    ELSE Res(Unhandled("KeyboardInterrupt"), t.st.log, t.st.db, NoList)

\* the header check of the three write handlers, lines 127-131, 197-201, 246-250:
\* the response that ends the request there, or kind "none" to go on
HeaderCheck(r) ==
    IF ~r.hasCtype THEN Unhandled("KeyError")
    ELSE IF r.ctype # "application/json" THEN JsonMsg("Header Error")
    ELSE IF r.body.kind = "malformed" THEN Abort(400)
    ELSE [kind |-> "none", status |-> 0, msg |-> ""]

\* register, lines 125-148
register(r, d, p) ==
    LET h == HeaderCheck(r)
        t == RegisterTry(r, Start(d), p)
    IN  IF h.kind # "none" THEN Res(h, <<>>, d, NoList)
        ELSE AfterTry(r, t, p)

------------------------------------------------------------------------------
(* Property handlers *)

\* custom_property, lines 153-159; order: the properties as get_records lists them
custom_property(r, d, order) ==
    Res(Html("WEKO_ITEMTYPES_UI_CREATE_PROPERTY", AList(order), 0),
        <<Ev("ItemTypeProps.get_records", TRUE)>>, d, AList(order))

\* get_property_list, lines 164-176
get_property_list(r, d, order) ==
    LET out == [k \in DOMAIN d.props |->
                  [name |-> d.props[k].name, schema |-> d.props[k].schema,
                   form |-> d.props[k].form, forms |-> d.props[k].forms]]
    IN  Res(JsonDoc([type |-> "lists", value |-> out]),
            <<Ev("ItemTypeProps.get_records", TRUE)>>, d, AList(order))

\* get_property, lines 181-190
get_property(r, d) ==
    LET prop == ItemTypePropsGetRecord(d, r.id)
        l == <<Ev("ItemTypeProps.get_record", TRUE)>>
    IN  \* prop.id: None has no attribute id
        IF prop.type = "None" THEN Res(Unhandled("AttributeError"), l, d, NoList)
        ELSE Res(JsonDoc([type |-> "property",
                          value |-> [id |-> prop.id, name |-> prop.row.name,
                                     schema |-> prop.row.schema, form |-> prop.row.form,
                                     forms |-> prop.row.forms]]), l, d, NoList)

\* custom_property_new, the try block, lines 202-208
PropertyTry(r, st, p) ==
    IF r.body.kind = "null" THEN Try(st, "Exception")
    ELSE
    LET c == ItemTypePropsCreate(st.sess, r.id, r.body.v, r.body.v, r.body.v, r.body.v,
                                 p.newProp, p.create)
        st1 == Did(st, "ItemTypeProps.create", c.exc, c.sess)
    IN  IF c.exc # "" THEN Try(st1, c.exc)
        ELSE AfterCommit(st1, p.commit)

\* custom_property_new, lines 195-213
custom_property_new(r, d, p) ==
    LET h == HeaderCheck(r)
        t == PropertyTry(r, Start(d), p)
    IN  IF h.kind # "none" THEN Res(h, <<>>, d, NoList)
        ELSE AfterTry(r, t, p)

------------------------------------------------------------------------------
(* Mapping handlers *)

\* ItemTypes.get_all: the item types in the order the query gives; with none to
\* list, None when none is TRUE and the empty list otherwise
ItemTypesGetAll(d, order, none) ==
    IF DOMAIN d.items = {} /\ none THEN NoList ELSE AList(order)

\* (mutant) the redirect goes to the last item type of the list
mapping_index_last(r, d, order, none) ==
    LET ls == ItemTypesGetAll(d, order, none)
        l0 == <<Ev("ItemTypes.get_all", TRUE)>>
        item_type == ItemTypesGetById(d, r.id)
        l1 == Append(l0, Ev("ItemTypes.get_by_id", TRUE))
        item_type_mapping == MappingGetRecord(d, r.id)
        l2 == Append(l1, Ev("Mapping.get_record", TRUE))
    IN  IF ls.none \/ Len(ls.seq) = 0
        THEN Res(Html("WEKO_ITEMTYPES_UI_ERROR_TEMPLATE", NoList, 0), l0, d, ls)
        ELSE IF item_type.type = "None"
        THEN Res(Redirect(".mapping_index", ls.seq[Len(ls.seq)]), l1, d, ls)
        ELSE Res(MappingPage(ls, JsonDumps(item_type_mapping), r.id), l2, d, ls)

\* mapping_index, lines 218-240
mapping_index(r, d, order, none) ==
    LET ls == ItemTypesGetAll(d, order, none)
        l0 == <<Ev("ItemTypes.get_all", TRUE)>>
        item_type == ItemTypesGetById(d, r.id)
        l1 == Append(l0, Ev("ItemTypes.get_by_id", TRUE))
        item_type_mapping == MappingGetRecord(d, r.id)
        l2 == Append(l1, Ev("Mapping.get_record", TRUE))
    IN  IF ls.none \/ Len(ls.seq) = 0
        THEN Res(Html("WEKO_ITEMTYPES_UI_ERROR_TEMPLATE", NoList, 0), l0, d, ls)
        ELSE IF item_type.type = "None"
        THEN Res(Redirect(".mapping_index", ls.seq[1]), l1, d, ls)
        ELSE Res(MappingPage(ls, JsonDumps(item_type_mapping), r.id), l2, d, ls)

\* (mutant) the mapping is created and never committed
MappingTryNoCommit(r, st, p) ==
    IF r.body.kind = "null" THEN Try(st, "Exception")
    ELSE
    LET mapping == JsonLoads(r.body.mapstr)
        c == MappingCreate(st.sess, r.body.item_type_id, mapping.val, p.create)
        st1 == Did(st, "Mapping.create", c.exc, c.sess)
    IN  IF ~mapping.ok THEN Try(st, "Exception")
        ELSE IF c.exc # "" THEN Try(st1, c.exc)
        ELSE Try(st1, "none")

\* mapping_register, the try block, lines 252-255
MappingTry(r, st, p) ==
    IF r.body.kind = "null" THEN Try(st, "Exception")
    ELSE
    LET mapping == JsonLoads(r.body.mapstr)
        c == MappingCreate(st.sess, r.body.item_type_id, mapping.val, p.create)
        st1 == Did(st, "Mapping.create", c.exc, c.sess)
    IN  IF ~mapping.ok THEN Try(st, "Exception")
        ELSE IF c.exc # "" THEN Try(st1, c.exc)
        ELSE AfterCommit(st1, p.commit)

\* mapping_register, lines 244-259
mapping_register(r, d, p) ==
    LET h == HeaderCheck(r)
        t == MappingTry(r, Start(d), p)
    IN  IF h.kind # "none" THEN Res(h, <<>>, d, NoList)
        ELSE AfterTry(r, t, p)

------------------------------------------------------------------------------
(* The state machine: one action per route *)

NoReq == GetReq("none", 0, "grant", FALSE)

NoResp == [kind |-> "none", status |-> 0, msg |-> ""]

NoGate == [state |-> "none", permission |-> "None", hidden |-> FALSE, auth |-> FALSE,
           f |-> "none", args |-> 0, status |-> 0, calls |-> <<>>]

Init ==
    /\ db = EmptyStore
    /\ pre = EmptyStore
    /\ req = NoReq
    /\ resp = NoResp
    /\ log = <<>>
    /\ lists = NoList
    /\ n = 0
    /\ gate = NoGate

\* the request r is served with result res
\* the worker is free and takes a request
Idle == req.route = "none" /\ n < MaxRequests

Serve(r, res) ==
    /\ req' = r
    /\ resp' = res.resp
    /\ log' = res.log
    /\ lists' = res.lists
    /\ pre' = db
    /\ db' = res.db
    /\ n' = n + 1
    /\ UNCHANGED gate

\* what the calls of a write request do: each of update, create and commit
\* returns ("ok") or raises an exception of the class given (the first that
\* raises ends the try block, so at most one does); rollback returns or raises;
\* newItem and newProp are the ids the allocators give a created row
Outcomes == {"ok", "Exception", "BaseException"}

Plans(d) ==
    {p \in [update : Outcomes, create : Outcomes, commit : Outcomes, rollback : BOOLEAN,
            newItem : FreshIds(d.items), newProp : FreshIds(d.props)] :
        Cardinality({k \in {"update", "create", "commit"} : p[k] # "ok"}) <= 1}

RegisterPlans(d) == {p \in Plans(d) : p.newProp = NextId(d.props)}

PropertyPlans(d) == {p \in Plans(d) : p.update = "ok" /\ p.newItem = NextId(d.items)}

MappingPlans(d) == {p \in PropertyPlans(d) : p.newProp = NextId(d.props)}

NoRaise == [update |-> "ok", create |-> "ok", commit |-> "ok", rollback |-> TRUE,
            newItem |-> 1, newProp |-> 1]

\* the headers, bodies and plans of the POST requests: a request that ends at
\* the header check has no body to read and makes no call
PostCases(bodies, plans) ==
    {<<h, NoBody, NoRaise>> : h \in {x \in PostHeaders : ~Passes(x)}}
    \cup {<<h, Body("malformed", FALSE, 0, 0, <<"none", 0>>), NoRaise>> :
             h \in {x \in PostHeaders : Passes(x)}}
    \cup {<<h, b, p>> : h \in {x \in PostHeaders : Passes(x)},
                        b \in bodies, p \in plans}

Index ==
    /\ Idle
    /\ \E id \in 0..MaxId, perm \in Perm, auth \in BOOLEAN, o \in Perms(DOMAIN db.items) :
           LET r == GetReq("index", id, perm, auth)
           IN  Serve(r, need_permissions(DefaultHidden, r, db, index(r, db, o)))

Render ==
    /\ Idle
    /\ \E id \in 0..MaxId, perm \in Perm, auth \in BOOLEAN :
           LET r == GetReq("render", id, perm, auth)
           IN  Serve(r, need_permissions(DefaultHidden, r, db, render(r, db)))

Register ==
    /\ Idle
    /\ \E id \in 0..MaxId, perm \in Perm, auth \in BOOLEAN,
          c \in PostCases(RegisterBodies, RegisterPlans(db)) :
           LET r == PostReq("register", id, perm, auth, c[1][1], c[1][2], c[2])
           IN  Serve(r, register(r, db, c[3]))

CustomProperty ==
    /\ Idle
    /\ \E perm \in Perm, auth \in BOOLEAN, o \in Perms(DOMAIN db.props) :
           LET r == GetReq("custom_property", 0, perm, auth)
           IN  Serve(r, need_permissions(DefaultHidden, r, db, custom_property(r, db, o)))

GetPropertyList ==
    /\ Idle
    /\ \E perm \in Perm, auth \in BOOLEAN, o \in Perms(DOMAIN db.props) :
           LET r == GetReq("get_property_list", 0, perm, auth)
           IN  Serve(r, need_permissions(DefaultHidden, r, db, get_property_list(r, db, o)))

GetProperty ==
    /\ Idle
    /\ \E id \in 0..MaxId, perm \in Perm, auth \in BOOLEAN :
           LET r == GetReq("get_property", id, perm, auth)
           IN  Serve(r, need_permissions(DefaultHidden, r, db, get_property(r, db)))

CustomPropertyNew ==
    /\ Idle
    /\ \E id \in 0..MaxId, perm \in Perm, auth \in BOOLEAN,
          c \in PostCases(PropertyBodies, PropertyPlans(db)) :
           LET r == PostReq("custom_property_new", id, perm, auth, c[1][1], c[1][2], c[2])
           IN  Serve(r, custom_property_new(r, db, c[3]))

MappingIndex ==
    /\ Idle
    /\ \E id \in 0..MaxId, perm \in Perm, auth \in BOOLEAN, o \in Perms(DOMAIN db.items),
          none \in {x \in BOOLEAN : DOMAIN db.items = {} \/ ~x} :
           LET r == GetReq("mapping_index", id, perm, auth)
           IN  Serve(r, mapping_index(r, db, o, none))

MappingRegister ==
    /\ Idle
    /\ \E perm \in Perm, auth \in BOOLEAN,
          c \in PostCases(MappingBodies, MappingPlans(db)) :
           LET r == PostReq("mapping_register", 0, perm, auth, c[1][1], c[1][2], c[2])
           IN  Serve(r, mapping_register(r, db, c[3]))

\* the response has gone out: the worker takes the next request
Finish ==
    /\ req.route # "none"
    /\ req' = NoReq
    /\ resp' = NoResp
    /\ log' = <<>>
    /\ lists' = NoList
    /\ pre' = db
    /\ UNCHANGED <<db, n, gate>>

Next ==
    \/ Finish
    \/ Index
    \/ Render
    \/ Register
    \/ CustomProperty
    \/ GetPropertyList
    \/ GetProperty
    \/ CustomPropertyNew
    \/ MappingIndex
    \/ MappingRegister

Spec == Init /\ [][Next]_vars

------------------------------------------------------------------------------
(* The decorator on its own: need_permissions(hidden) around a handler f *)

Decorated == {"index", "render", "custom_property", "get_property_list", "get_property"}

GateInit ==
    /\ db = EmptyStore
    /\ pre = EmptyStore
    /\ req = NoReq
    /\ resp = NoResp
    /\ log = <<>>
    /\ lists = NoList
    /\ n = 0
    /\ gate \in [state : {"pending"}, permission : {"None", "grant", "deny"},
                 hidden : BOOLEAN, auth : BOOLEAN, f : Decorated, args : 0..MaxId,
                 status : {0}, calls : {<<>>}]

\* decorate(*args, **kwargs), lines 74-76, around a handler that answers 200
Decorate ==
    /\ gate.state = "pending"
    /\ LET r == [perm |-> gate.permission, auth |-> gate.auth]
           h == Res(JsonMsg("called"),
                    <<[call |-> gate.f, ok |-> TRUE, args |-> gate.args]>>, db, NoList)
           res == need_permissions(gate.hidden, r, db, h)
       IN  gate' = [gate EXCEPT !.state = "done", !.status = res.resp.status,
                                !.calls = res.log]
    /\ UNCHANGED <<db, pre, req, resp, log, lists, n>>

GateNext == Decorate

GateSpec == GateInit /\ [][GateNext]_vars

------------------------------------------------------------------------------
(* Properties *)

Writes == {"register", "custom_property_new", "mapping_register"}

Reads == {"index", "render", "get_property_list", "get_property", "mapping_index"}

DataCalls ==
    {"ItemTypes.get_latest", "ItemTypes.get_by_id", "ItemTypes.get_all", "ItemTypes.update",
     "ItemTypeProps.get_records", "ItemTypeProps.get_record", "ItemTypeProps.create",
     "Mapping.create", "Mapping.get_record", "db.session.commit", "db.session.rollback"}

IsMsg(m) == resp.kind = "json" /\ resp.status = 200 /\ resp.msg = m

\* the request passed the header check and its JSON body was obtained
Entered ==
    /\ req.route \in Writes
    /\ req.hasCtype
    /\ req.ctype = "application/json"
    /\ req.body.kind # "malformed"

\* a data-layer call or the commit raised
WriteRaised ==
    \E i \in DOMAIN log :
        log[i].call \in DataCalls \ {"db.session.rollback"} /\ ~log[i].ok

\* an exception that does not derive from Exception was raised in
\* custom_property_new, whose except clause does not catch it
Escaped ==
    /\ req.route = "custom_property_new"
    /\ \E i \in DOMAIN log : log[i].exc = "BaseException"

RegisterRow ==
    [name |-> TableRowMap(req.body).name, schema |-> TableRowMap(req.body).schema,
     form |-> TableRowMap(req.body).form, render |-> req.body.v]

\* C1: register is atomic.  When Mapping.create raises after ItemTypes.update
\* succeeded, the rollback is called, the commit never, and the store is as
\* before; and whenever a register request changes the store, the store holds
\* both the item type it wrote and that item type's mapping, and nothing else
\* differs.
C1_RegisterAtomic ==
    req.route = "register" =>
        /\ (CalledOk(log, "ItemTypes.update") /\ Called(log, "Mapping.create")
              /\ ~CalledOk(log, "Mapping.create"))
           => (Called(log, "db.session.rollback") /\ ~Called(log, "db.session.commit")
               /\ db = pre)
        /\ db # pre =>
             \E i \in DOMAIN db.items :
                /\ req.id # 0 => i = req.id
                /\ db.items = Put(pre.items, i, RegisterRow)
                /\ db.maps = Put(pre.maps, i, TableRowMap(req.body).mapping)
                /\ db.props = pre.props

C1_Witness ==
    /\ req.route = "register"
    /\ req.id = 0
    /\ CalledOk(log, "ItemTypes.update")
    /\ Called(log, "Mapping.create")
    /\ ~CalledOk(log, "Mapping.create")

\* C2 (as claimed): a write request whose Content-Type is not application/json,
\* an absent header included, is answered {msg: "Header Error"} with status 200
\* and makes no data-layer call, no commit and no rollback.
C2_HeaderError ==
    (req.route \in Writes /\ ~(req.hasCtype /\ req.ctype = "application/json"))
    => (IsMsg("Header Error") /\ log = <<>> /\ db = pre)

\* C3 (as claimed): when a data-layer call or the commit of a write handler
\* raises, the session is rolled back, the response is {msg: "Fail"} (no
\* exception leaves the handler) and the store is as it was before the request.
C3_FailRollsBack ==
    (req.route \in Writes /\ WriteRaised)
    => (/\ Called(log, "db.session.rollback")
        /\ IsMsg("Fail")
        /\ db = pre)

\* C4 (as claimed): in every request, any call to ItemTypes, ItemTypeProps,
\* Mapping or the session comes after the permission gate was evaluated and
\* allowed the request.
C4_GateBeforeData ==
    \A i \in DOMAIN log :
        log[i].call \in DataCalls => (i > 1 /\ log[1] = Ev("permission.can", TRUE))

\* C5: the decorator aborts when permission().can() is false: 404 when hidden,
\* else 403 for an authenticated caller and 401 otherwise, and the handler is
\* not invoked; when permission is granted the handler is invoked exactly once
\* with the original arguments and its response is returned.
C5_Gate ==
    gate.state = "done" =>
        /\ gate.permission = "deny" =>
             /\ gate.status = (IF gate.hidden THEN 404 ELSE IF gate.auth THEN 403 ELSE 401)
             /\ Count(gate.calls, gate.f) = 0
        /\ gate.permission = "grant" =>
             /\ gate.status = 200
             /\ Count(gate.calls, gate.f) = 1
             /\ \A i \in DOMAIN gate.calls :
                   gate.calls[i].call = gate.f => gate.calls[i].args = gate.args

C5_Witness ==
    /\ gate.state = "done"
    /\ gate.permission = "deny"
    /\ ~gate.hidden
    /\ ~gate.auth
    /\ gate.status = 401

\* C6 (as claimed): a GET of the page routes index and custom_property whose
\* permission check fails is answered 404, authenticated or not.
C6_PageDenied404 ==
    (req.route \in {"index", "custom_property"} /\ req.perm = "deny")
    => resp.status = 404

\* C6 (amended): a GET of the page routes index and custom_property whose
\* permission check fails is answered 403 when the caller is authenticated and
\* 401 otherwise, and the page's data is not fetched.
C6_PageDenied ==
    (req.route \in {"index", "custom_property"} /\ req.perm = "deny")
    => (/\ resp.kind = "abort"
        /\ resp.status = (IF req.auth THEN 403 ELSE 401)
        /\ \A i \in DOMAIN log : log[i].call \notin DataCalls)

C6_Witness ==
    /\ req.route = "index"
    /\ req.perm = "deny"
    /\ req.auth
    /\ resp.status = 403

\* C7 (as claimed): render with id 0 or an id that does not resolve returns the
\* fixed empty-shape document as a successful JSON response; with an id that
\* resolves it returns that item type's render definition.
C7_RenderDocument ==
    (req.route = "render" /\ req.perm = "grant") =>
        /\ resp.kind = "json"
        /\ resp.status = 200
        /\ IF req.id \in DOMAIN pre.items
           THEN resp.doc.type = "render" /\ resp.doc.value = pre.items[req.id].render
           ELSE resp.doc.type = "dict" /\ resp.doc.value = EmptyShape

\* the entity a read request asks for is missing
Missing ==
    \/ req.route = "render" /\ req.id \notin DOMAIN pre.items
    \/ req.route = "get_property" /\ req.id \notin DOMAIN pre.props
    \/ req.route = "get_property_list" /\ DOMAIN pre.props = {}
    \/ req.route = "index" /\ DOMAIN pre.items = {}
    \/ req.route = "mapping_index"
         /\ (req.id \notin DOMAIN pre.items \/ req.id \notin DOMAIN pre.maps)

\* C8 (as claimed): a read request for a missing entity that passes the
\* permission gate ends in a page, a JSON document or a redirect, never in an
\* error.
C8_ReadMissingNoError ==
    (req.route \in Reads /\ Missing /\ (req.perm = "grant" \/ req.route = "mapping_index"))
    => (resp.kind \in {"html", "json", "redirect"} /\ resp.status < 400)

\* C9: mapping_index renders the error template, without get_by_id or
\* Mapping.get_record, when get_all returns None or an empty list; redirects to
\* mapping_index for the first listed item type, without Mapping.get_record,
\* when the requested id does not resolve; and only when the id resolves
\* renders the mapping page with that id and its mapping.
C9_MappingIndex ==
    req.route = "mapping_index" =>
        /\ Called(log, "ItemTypes.get_all")
        /\ IF lists.none \/ Len(lists.seq) = 0
           THEN /\ resp.kind = "html"
                /\ resp.template = "WEKO_ITEMTYPES_UI_ERROR_TEMPLATE"
                /\ ~Called(log, "ItemTypes.get_by_id")
                /\ ~Called(log, "Mapping.get_record")
           ELSE IF req.id \notin DOMAIN pre.items
           THEN /\ resp.kind = "redirect"
                /\ resp.endpoint = ".mapping_index"
                /\ resp.id = lists.seq[1]
                /\ ~Called(log, "Mapping.get_record")
           ELSE /\ resp.kind = "html"
                /\ resp.template = "WEKO_ITEMTYPES_UI_MAPPING_TEMPLATE"
                /\ resp.id = req.id
                /\ resp.mapping = JsonDumps(MappingGetRecord(pre, req.id))
                /\ Called(log, "Mapping.get_record")

C9_Witness ==
    /\ req.route = "mapping_index"
    /\ resp.kind = "redirect"
    /\ Len(lists.seq) = 2
    /\ lists.seq[1] > lists.seq[2]
    /\ resp.id = lists.seq[1]

\* C10 (as claimed): a write request that passed the header check and got its
\* body attempts exactly one of commit and rollback, never has both a
\* successful commit and a rollback, and answers Success exactly when the
\* commit completed, Fail otherwise.
C10_ExactlyOneAttempted ==
    Entered =>
        /\ Called(log, "db.session.commit") # Called(log, "db.session.rollback")
        /\ ~(CalledOk(log, "db.session.commit") /\ Called(log, "db.session.rollback"))
        /\ IsMsg("Success") <=> CalledOk(log, "db.session.commit")
        /\ ~CalledOk(log, "db.session.commit") => IsMsg("Fail")

\* C10 (amended): such a request attempts the commit at most once and the
\* rollback at most once, never has both a commit that completed and a
\* rollback, and answers Success exactly when the commit completed.  When the
\* commit did not complete (it raised, or was never reached), the rollback is
\* attempted and the answer is Fail if the rollback returned, an exception
\* leaving the handler if it raised; except in custom_property_new after an
\* exception that does not derive from Exception, which leaves the handler
\* with no rollback attempted.
C10_CommitOrRollback ==
    Entered =>
        /\ Count(log, "db.session.commit") <= 1
        /\ Count(log, "db.session.rollback") <= 1
        /\ ~(CalledOk(log, "db.session.commit") /\ Called(log, "db.session.rollback"))
        /\ IsMsg("Success") <=> CalledOk(log, "db.session.commit")
        /\ ~CalledOk(log, "db.session.commit") =>
             IF Escaped
             THEN ~Called(log, "db.session.rollback") /\ resp.kind = "exception"
             ELSE /\ Called(log, "db.session.rollback")
                  /\ IF CalledOk(log, "db.session.rollback")
                     THEN IsMsg("Fail")
                     ELSE resp.kind = "exception"

C10_Witness ==
    /\ Entered
    /\ req.route = "mapping_register"
    /\ Called(log, "db.session.commit")
    /\ ~CalledOk(log, "db.session.commit")
    /\ Called(log, "db.session.rollback")

====
